---- MODULE Spec2Model ----
(***************************************************************************)
(* Model of the unified LLM invocation layer:                              *)
(*   ai()                   packages/core/src/services/ai/index.ts         *)
(*   handleAICallAPIError() packages/core/src/services/ai/index.ts         *)
(* One invocation of ai() is followed statement by statement; every call   *)
(* of a collaborator (applyAllRules, createProvider, getLanguageModel,     *)
(* buildTools, streamText) is one step whose outcome (a returned value or  *)
(* a thrown value) is chosen among the outcomes the collaborator can have. *)
(***************************************************************************)
EXTENDS Integers, Sequences, FiniteSets, TLC

VARIABLES
    pc,                     \* position of the invocation inside ai()
    input,                  \* the arguments of ai() and process.env.DEBUG_AI
    calls,                  \* collaborators invoked so far, in order
    rule,                   \* value returned by applyAllRules
    providerAdapterResult,  \* value returned by createProvider
    toolsResult,            \* value returned by buildTools
    resultType,             \* local `resultType` of ai()
    streamResult,           \* local `result`: the object streamText returned
    caught,                 \* value caught by the top-level catch, and its origin
    returned,               \* what the promise returned by ai() settled to
    accessors,              \* state of the deferred accessors of the stream object
    logs,                   \* diagnostic entries written to the console, in order
    useSchema,              \* local `useSchema` of ai()
    dispatched,             \* the argument object streamText was called with
    snapshots,              \* what the diagnostic snapshots wrote of each content part
    stream,                 \* the stream behind `result`: chunks delivered, abort, end, other accessors
    conc,                   \* concurrent invocations of ai() on one credential and config
    setup,                  \* one run of the handler of setupAction
    handle                  \* fields of the returned value: which accessor of `result` each one is

vars == <<pc, input, calls, rule, providerAdapterResult, toolsResult,
          resultType, streamResult, caught, returned, accessors, logs,
          useSchema, dispatched, handle, snapshots, stream, conc, setup>>

----------------------------------------------------------------------------
(* Bounds *)

MaxViolations == 2

\* number of concurrent invocations of ai()
NumInvocations == 2

\* chunks a stream delivers at most before it ends
MaxChunks == 2

\* length of a payload longer than the truncation limit
LongPayload == 250

----------------------------------------------------------------------------
(* Values *)

\* RunErrorCodes members named by the return type of ai()
AIProviderConfigError == "ai_provider_config_error"
AIRunError == "ai_run_error"
Unknown == "unknown_error"

Providers == {"openai", "anthropic"}

\* ObjectOutput = 'object' | 'array' | 'no-schema' | undefined
ObjectOutput == {"object", "array", "no-schema", "undefined"}

\* substring(0, 100): the number of characters a truncated payload keeps
TruncateAt == 100

\* length of the '...' appended to a truncated payload
EllipsisLen == 3

\* A content part of a message, by what the snapshot looks at: its type, the
\* form of its payload and the payload's length. `content` stands for a
\* message whose content is a string rather than a list of parts.
\*   string : a string that is neither an http URL nor a data: URI
\*   http, data: : a string starting with 'http' / 'data:'
\*   binary : a Buffer or Uint8Array
Parts ==
    [type : {"text", "content"}, payload : {"string"}, length : {TruncateAt, LongPayload}]
    \cup [type : {"image"}, payload : {"string", "http", "data:", "binary"},
          length : {TruncateAt, LongPayload}]
    \cup [type : {"file"}, payload : {"string", "binary"}, length : {TruncateAt, LongPayload}]

\* the content part of the requests of Spec: a short text
ShortText == [type |-> "text", payload |-> "string", length |-> TruncateAt]

\* values of process.env.DEBUG_AI: unset, the enabling value, another value
EnvValues == {"undefined", "true", "1"}

\* messages of the violations the rule engine can report
RuleMessages == {"r1", "r2"}

\* the deferred accessors ai() attaches diagnostic observers to
ObservedAccessors == {"providerMetadata", "finishReason"}

\* Values a collaborator (or the diagnostic code) can throw.
\*   APICallError : the transport error of the 'ai' package (it is an Error)
\*   Error        : any other Error instance
\*   value        : a thrown non-error value that has a string form
\*   symbol       : a thrown Symbol; a template literal cannot convert it
Thrown ==
    { [kind |-> "APICallError", message |-> "M", responseBody |-> "B", string |-> "APICallError: M"],
      [kind |-> "Error", message |-> "X", responseBody |-> "", string |-> "Error: X"],
      [kind |-> "value", message |-> "", responseBody |-> "", string |-> "V"],
      [kind |-> "symbol", message |-> "", responseBody |-> "", string |-> "Symbol(s)"] }

\* TypeError raised by `result.providerMetadata.then` on a missing accessor
MissingAccessorError ==
    [kind |-> "Error", message |-> "Cannot read properties of undefined (reading 'then')",
     responseBody |-> "", string |-> "TypeError"]

NoThrown == [kind |-> "none", message |-> "", responseBody |-> "", string |-> ""]

----------------------------------------------------------------------------
(* lib/Result *)

ResultError(code, message) ==
    [status |-> "error", code |-> code, message |-> message,
     type |-> "", providerName |-> "", stream |-> ""]

ResultOk(type, providerName, value) ==
    [status |-> "ok", code |-> "", message |-> "",
     type |-> type, providerName |-> providerName, stream |-> value]

\* the promise of ai() has not settled / no value was returned by a collaborator
Pending ==
    [status |-> "pending", code |-> "", message |-> "",
     type |-> "", providerName |-> "", stream |-> ""]

\* the promise of ai() rejected: an exception left the function
Rejected ==
    [status |-> "rejected", code |-> "", message |-> "",
     type |-> "", providerName |-> "", stream |-> ""]

----------------------------------------------------------------------------
(* Outcomes of the collaborators *)

\* The caller's messages and config (originalMessages, originalConfig). A
\* config is an object: a function from its keys to their values.
originalMessages == "messages"

originalConfig ==
    [model |-> "model", tools |-> "toolSchemas", providerOptions |-> "providerOptions",
     temperature |-> "temperature", schema |-> "configSchema"]

\* the configs applyAllRules can return: derived copies of the caller's
\* config, with or without a 'schema' key
RuleConfigs ==
    { [model |-> "model'", tools |-> "toolSchemas'", providerOptions |-> "providerOptions'",
       temperature |-> "temperature'", schema |-> "configSchema'"],
      [model |-> "model'", tools |-> "toolSchemas'", providerOptions |-> "providerOptions'",
       temperature |-> "temperature'"] }

RECURSIVE SeqsUpTo(_, _)
\* all sequences over S of length at most n
SeqsUpTo(S, n) ==
    IF n = 0 THEN {<<>>}
    ELSE LET shorter == SeqsUpTo(S, n - 1)
         IN  shorter \cup {Append(s, x) : s \in shorter, x \in S}

\* applyAllRules returns { rules, messages, config }: the violations found and
\* the (possibly rewritten) messages and config
RuleOutcomes ==
    { [returned |-> TRUE, rules |-> v, messages |-> "messages'", config |-> c] :
        v \in SeqsUpTo(RuleMessages, MaxViolations), c \in RuleConfigs }

NoRule == [returned |-> FALSE, rules |-> <<>>, messages |-> "", config |-> <<>>]

\* createProvider returns Result.ok(adapter) or a configuration error
ProviderOutcomes ==
    { ResultOk("", "", "llmProvider"),
      ResultError(AIProviderConfigError, "Provider config is missing a required field") }

\* buildTools returns Result.ok(tools) or a run error
ToolsOutcomes ==
    { ResultOk("", "", "tools"),
      ResultError(AIRunError, "Invalid tool schema") }

\* The object streamText returns. The default transport returns every
\* accessor; an injected override (Partial<AISDKProvider>) returns whatever
\* its author built, possibly without the accessors ai() observes.
StreamOutcomes(aiSdkProvider) ==
    IF aiSdkProvider = "default"
    THEN { [a \in ObservedAccessors |-> "pending"] }
    ELSE { [a \in ObservedAccessors |-> IF a \in present THEN "pending" ELSE "missing"] :
             present \in SUBSET ObservedAccessors }

NoStream == [a \in ObservedAccessors |-> "none"]

----------------------------------------------------------------------------
(* ai(): the pure parts *)

RECURSIVE JoinLines(_)
\* rule.rules.map((rule) => `- ${rule.ruleMessage}`).join('\n')
JoinLines(rules) ==
    IF Len(rules) = 0 THEN ""
    ELSE IF Len(rules) = 1 THEN "- " \o rules[1]
    ELSE "- " \o rules[1] \o "\n" \o JoinLines(Tail(rules))

\* mutation: only the first violation is reported
ViolationsMessageFirstOnly(rules) ==
    "There are rule violations:\n" \o JoinLines(SubSeq(rules, 1, 1))

\* message of the ChainError built from the violations
ViolationsMessage(rules) == "There are rule violations:\n" \o JoinLines(rules)

\* mutation: a single violation is let through
HasViolationsOffByOne(r) == Len(r.rules) > 1

\* rule.rules.length > 0
HasViolations(r) == Len(r.rules) > 0

\* mutation: the adapter's error is not looked at
ProviderAdapterErrorIgnored(r) == FALSE

\* providerAdapterResult.error
ProviderAdapterFailed(r) == r.status = "error"

\* mutation: the tool builder's error is not looked at
ToolsErrorIgnored(r) == FALSE

\* toolsResult.error
ToolsFailed(r) == r.status = "error"

\* JavaScript truthiness of the `output` argument: undefined is falsy, the
\* three mode strings are truthy
Truthy(output) == output # "undefined"

\* mutation: the 'no-schema' mode is not excluded
UseSchemaIgnoringNoSchema(schema, output) == schema /\ Truthy(output)

\* const useSchema = schema && !!output && output !== 'no-schema'
UseSchema(schema, output) == schema /\ Truthy(output) /\ output # "no-schema"

\* const resultType: StreamType = useSchema ? 'object' : 'text'
ResultTypeOf(schema, output) == IF UseSchema(schema, output) THEN "object" ELSE "text"

\* mutation: nothing is removed from the config
OmitNothing(object, keys) == object

\* omit(object, keys) of lodash: a copy of the object without the keys
Omit(object, keys) == [k \in (DOMAIN object) \ keys |-> object[k]]

\* { ...a, ...b }: the keys of both objects, those of b winning
Spread(a, b) ==
    [k \in (DOMAIN a) \cup (DOMAIN b) |-> IF k \in DOMAIN b THEN b[k] ELSE a[k]]

\* mutation: the branches of the conditional are exchanged
ExperimentalOutputInverted(use) ==
    IF use THEN "undefined" ELSE "Output.object(jsonSchema(schema))"

\* experimental_output: useSchema ? Output.object({ schema: jsonSchema(schema) }) : undefined
ExperimentalOutput(use) ==
    IF use THEN "Output.object(jsonSchema(schema))" ELSE "undefined"

\* mutation: the caller's signal is not handed on
AbortSignalDropped(abortSignal) == "undefined"

\* abortSignal, as passed to streamText
DispatchedAbortSignal(abortSignal) == abortSignal

\* the argument object of the streamText call, lines 236-249
StreamTextArguments(config, messages, tools, abortSignal, use) ==
    Spread(Omit(config, {"schema"}),
           [model |-> "languageModel",
            prompt |-> "prompt",
            messages |-> messages,
            tools |-> tools,
            abortSignal |-> DispatchedAbortSignal(abortSignal),
            providerOptions |-> config["providerOptions"],
            experimental_telemetry |-> "isEnabled: false",
            experimental_transform |-> "smoothStream()",
            experimental_output |-> ExperimentalOutput(use)])

\* the deferred accessors of `result` that ai() hands on without observing
UnobservedAccessors == {"text", "usage", "toolCalls", "response"}

\* the stream of a `result` before anything was delivered
NoChunks ==
    [chunks |-> 0, aborted |-> FALSE, finished |-> FALSE,
     deferred |-> [a \in UnobservedAccessors |-> "none"]]

\* the fields of the success value that come from `result`, lines 267-275
HandleFields ==
    {"fullStream", "text", "reasoning", "usage", "toolCalls", "providerMetadata",
     "sources", "finishReason", "response"}

\* mutation: one field is filled from another accessor
ReexportedAccessorMixedUp(field) ==
    IF field = "finishReason" THEN "providerMetadata" ELSE field

\* <field>: result.<field>
ReexportedAccessor(field) == field

\* nothing was returned yet
NoHandle == <<>>

\* streamText has not been called
NoDispatch == <<>>

\* mutation: a returned stream object is dispatched once more
StageAfterWithRetry(stage) ==
    CASE stage = "Idle" -> "Validating"
      [] stage = "Validating" -> "AdapterBuilding"
      [] stage = "AdapterBuilding" -> "ModelResolving"
      [] stage = "ModelResolving" -> "ToolBuilding"
      [] stage = "ToolBuilding" -> "ModeDeciding"
      [] stage = "ModeDeciding" -> "Streaming"
      [] stage = "Streaming" -> "Streaming"
      [] stage = "Wrapping" -> "Completed"

\* the statements of the try block run in this order
StageAfter(stage) ==
    CASE stage = "Idle" -> "Validating"
      [] stage = "Validating" -> "AdapterBuilding"
      [] stage = "AdapterBuilding" -> "ModelResolving"
      [] stage = "ModelResolving" -> "ToolBuilding"
      [] stage = "ToolBuilding" -> "ModeDeciding"
      [] stage = "ModeDeciding" -> "Streaming"
      [] stage = "Streaming" -> "Wrapping"
      [] stage = "Wrapping" -> "Completed"

----------------------------------------------------------------------------
(* handleAICallAPIError *)

\* APICallError.isInstance(e)
IsApiError(e) == e.kind = "APICallError"

\* e instanceof Error (APICallError extends Error)
IsError(e) == e.kind \in {"APICallError", "Error"}

\* a template literal `${e}` converts e with ToString, which throws a
\* TypeError for a Symbol
TemplateThrows(e) == e.kind = "symbol"

\* mutation: every value that is not a transport error gets one fixed message
TranslatedMessageGeneric(e) ==
    IF IsApiError(e)
    THEN "Error: " \o e.message \o " and response body: " \o e.responseBody
    ELSE "Unknown error"

\* the message expression of handleAICallAPIError
TranslatedMessage(e) ==
    IF IsApiError(e)
    THEN "Error: " \o e.message \o " and response body: " \o e.responseBody
    ELSE IF IsError(e)
         THEN "Unknown error: " \o e.message
         ELSE "Unknown error: " \o e.string

\* handleAICallAPIError throws instead of returning when the message
\* expression throws
HandleErrorThrows(e) == ~IsApiError(e) /\ ~IsError(e) /\ TemplateThrows(e)

\* mutation: values that are not transport errors get the code Unknown
handleAICallAPIErrorUnknownCode(e) ==
    ResultError(IF e.kind = "APICallError" THEN AIRunError ELSE Unknown,
                TranslatedMessage(e))

handleAICallAPIError(e) == ResultError(AIRunError, TranslatedMessage(e))

----------------------------------------------------------------------------
(* ai(): the steps *)

\* text.substring(0, 100) + (text.length > 100 ? '...' : ''): characters written
Truncated(length) ==
    IF length > TruncateAt THEN TruncateAt + EllipsisLen ELSE length

\* The number of characters of a part's payload that the snapshot writes
\* (lines 112-146 and 198-232):
\*   text, string content : the truncated text
\*   image, URL or data: URI : the whole string (preview: imageData)
\*   image, other string : substring(0, 100) + '...'
\*   image, binary : none ('Binary data')
\*   file : none (presence, mime type, data type and size only)
LoggedPayload(part) ==
    CASE part.type \in {"text", "content"} -> Truncated(part.length)
      [] part.type = "image" /\ part.payload \in {"http", "data:"} -> part.length
      [] part.type = "image" /\ part.payload = "string" ->
            (IF part.length > TruncateAt THEN TruncateAt ELSE part.length) + EllipsisLen
      [] part.type = "image" /\ part.payload = "binary" -> 0
      [] part.type = "file" -> 0

\* one entry of a logged snapshot
PartSnapshot(section, part) ==
    [section |-> section, type |-> part.type, payload |-> part.payload,
     length |-> part.length, logged |-> LoggedPayload(part)]

\* mutation: any set value of the flag enables the diagnostics
DiagnosticsEnabledWhenSet(env) == env # "undefined"

\* process.env.DEBUG_AI === 'true'
DiagnosticsEnabled(env) == env = "true"

\* const debugAI, read by ai() and again by handleAICallAPIError
debugAI == DiagnosticsEnabled(input.DEBUG_AI)

\* what the diagnostic statements can throw: a TypeError raised while the
\* snapshot of the messages or of the config is built or serialised
DiagnosticThrown == {e \in Thrown : e.kind = "Error"}

NotCaught == [from |-> "", value |-> NoThrown]

\* control leaves the try block for the catch clause
Throw(from, e) ==
    /\ pc' = "Catch"
    /\ caught' = [from |-> from, value |-> e]

Invocations == 1..NumInvocations

\* What the collaborators do for the shared, immutable credential, messages
\* and config: the same for every invocation.
SharedInputs ==
    [provider : Providers, rules : {<<>>, <<"r1">>}, adapter : {"ok", "error", "throws"},
     tools : {"ok", "error"}, transport : {"ok", "throws"}]

\* the locals of one invocation: objects are identified by the number of
\* their allocation, 0 standing for none
IdleInvocation ==
    [pc |-> "Idle", calls |-> <<>>, adapter |-> 0, tools |-> 0, result |-> 0,
     returned |-> Pending]

\* no concurrent invocations are running
NoInvocations ==
    [shared |-> [provider |-> "openai", rules |-> <<>>, adapter |-> "ok",
                 tools |-> "ok", transport |-> "ok"],
     allocated |-> 0,
     inv |-> [i \in Invocations |-> IdleInvocation]]

\* no run of setupAction
NoSetup == <<>>

Init ==
    /\ pc = "Idle"
    /\ input \in [DEBUG_AI : EnvValues, provider : Providers, schema : BOOLEAN,
                  output : ObjectOutput, aiSdkProvider : {"default", "override"},
                  abortSignal : {"undefined", "signal"}, part : {ShortText}]
    /\ calls = <<>>
    /\ rule = NoRule
    /\ providerAdapterResult = Pending
    /\ toolsResult = Pending
    /\ resultType = ""
    /\ streamResult = NoStream
    /\ caught = NotCaught
    /\ returned = Pending
    /\ accessors = NoStream
    /\ logs = <<>>
    /\ useSchema = FALSE
    /\ dispatched = NoDispatch
    /\ handle = NoHandle
    /\ snapshots = <<>>
    /\ stream = NoChunks
    /\ conc = NoInvocations
    /\ setup = NoSetup

\* lines 98-148: resolve the transport, read DEBUG_AI, log the request
Enter ==
    /\ pc = "Idle"
    /\ \/ /\ ~debugAI
          /\ pc' = StageAfter("Idle")
          /\ UNCHANGED <<caught, logs, snapshots>>
       \/ /\ debugAI
          /\ pc' = StageAfter("Idle")
          /\ logs' = Append(logs, "AI Request Debug Info")
          /\ snapshots' = Append(snapshots, PartSnapshot("Messages", input.part))
          /\ UNCHANGED caught
       \/ /\ debugAI
          /\ \E e \in DiagnosticThrown : Throw("diagnostics", e)
          /\ logs' = Append(logs, "AI Request Debug Info")
          /\ UNCHANGED snapshots
    /\ UNCHANGED <<conc, setup, stream, handle, useSchema, dispatched, input, calls, rule, providerAdapterResult, toolsResult,
                   resultType, streamResult, returned, accessors>>

\* lines 150-165: run the rule engine, fail on violations
ApplyAllRules ==
    /\ pc = "Validating"
    /\ calls' = Append(calls, "applyAllRules")
    /\ \/ \E r \in RuleOutcomes :
            /\ rule' = r
            /\ IF HasViolations(r)
               THEN /\ returned' = ResultError(AIRunError, ViolationsMessage(r.rules))
                    /\ pc' = "Failed"
               ELSE /\ returned' = returned
                    /\ pc' = StageAfter("Validating")
            /\ UNCHANGED caught
       \/ /\ \E e \in Thrown : Throw("applyAllRules", e)
          /\ UNCHANGED <<rule, returned>>
    /\ UNCHANGED <<conc, setup, stream, snapshots, handle, useSchema, dispatched, input, providerAdapterResult, toolsResult, resultType,
                   streamResult, accessors, logs>>

\* lines 167-181: build the provider adapter, return its error as it is
CreateProvider ==
    /\ pc = "AdapterBuilding"
    /\ calls' = Append(calls, "createProvider")
    /\ \/ \E r \in ProviderOutcomes :
            /\ providerAdapterResult' = r
            /\ IF ProviderAdapterFailed(r)
               THEN /\ returned' = r
                    /\ pc' = "Failed"
               ELSE /\ returned' = returned
                    /\ pc' = StageAfter("AdapterBuilding")
            /\ UNCHANGED caught
       \/ /\ \E e \in Thrown : Throw("createProvider", e)
          /\ UNCHANGED <<providerAdapterResult, returned>>
    /\ UNCHANGED <<conc, setup, stream, snapshots, handle, useSchema, dispatched, input, rule, toolsResult, resultType, streamResult,
                   accessors, logs>>

\* lines 183-188: resolve the language model through the adapter
GetLanguageModel ==
    /\ pc = "ModelResolving"
    /\ calls' = Append(calls, "getLanguageModel")
    /\ \/ /\ pc' = StageAfter("ModelResolving")
          /\ UNCHANGED caught
       \/ \E e \in Thrown : Throw("getLanguageModel", e)
    /\ UNCHANGED <<conc, setup, stream, snapshots, handle, useSchema, dispatched, input, rule, providerAdapterResult, toolsResult, resultType,
                   streamResult, returned, accessors, logs>>

\* lines 190-191: build the tools, return the builder's error as it is
BuildTools ==
    /\ pc = "ToolBuilding"
    /\ calls' = Append(calls, "buildTools")
    /\ \/ \E r \in ToolsOutcomes :
            /\ toolsResult' = r
            /\ IF ToolsFailed(r)
               THEN /\ returned' = r
                    /\ pc' = "Failed"
               ELSE /\ returned' = returned
                    /\ pc' = StageAfter("ToolBuilding")
            /\ UNCHANGED caught
       \/ /\ \E e \in Thrown : Throw("buildTools", e)
          /\ UNCHANGED <<toolsResult, returned>>
    /\ UNCHANGED <<conc, setup, stream, snapshots, handle, useSchema, dispatched, input, rule, providerAdapterResult, resultType, streamResult,
                   accessors, logs>>

\* lines 193-234: decide the result mode, log the converted messages
DecideResultType ==
    /\ pc = "ModeDeciding"
    /\ useSchema' = UseSchema(input.schema, input.output)
    /\ resultType' = ResultTypeOf(input.schema, input.output)
    /\ \/ /\ ~debugAI
          /\ pc' = StageAfter("ModeDeciding")
          /\ UNCHANGED <<caught, logs, snapshots>>
       \/ /\ debugAI
          /\ pc' = StageAfter("ModeDeciding")
          /\ logs' = Append(logs, "Converted Messages for Provider")
          /\ snapshots' = Append(snapshots, PartSnapshot("Messages after rules", input.part))
          /\ UNCHANGED caught
       \/ /\ debugAI
          /\ \E e \in DiagnosticThrown : Throw("diagnostics", e)
          /\ logs' = Append(logs, "Converted Messages for Provider")
          /\ UNCHANGED snapshots
    /\ UNCHANGED <<conc, setup, stream, handle, dispatched, input, calls, rule, providerAdapterResult, toolsResult,
                   streamResult, returned, accessors>>

\* lines 236-249: dispatch the streaming call
StreamText ==
    /\ pc = "Streaming"
    /\ calls' = Append(calls, "streamText")
    /\ dispatched' = StreamTextArguments(rule.config, rule.messages, toolsResult.stream,
                                         input.abortSignal, useSchema)
    /\ \/ \E r \in StreamOutcomes(input.aiSdkProvider) :
            /\ streamResult' = r
            /\ stream' = [stream EXCEPT !.deferred = [a \in UnobservedAccessors |-> "pending"]]
            /\ pc' = StageAfter("Streaming")
            /\ UNCHANGED caught
       \/ /\ \E e \in Thrown : Throw("streamText", e)
          /\ UNCHANGED <<streamResult, stream>>
    /\ UNCHANGED <<conc, setup, snapshots, handle, useSchema, input, rule, providerAdapterResult, toolsResult, resultType,
                   returned, accessors, logs>>

\* lines 251-276: attach the diagnostic observers, return the success value
ReturnOk ==
    /\ pc = "Wrapping"
    /\ IF debugAI /\ \E a \in ObservedAccessors : streamResult[a] = "missing"
       THEN /\ Throw("diagnostics", MissingAccessorError)
            /\ UNCHANGED <<returned, accessors, handle>>
       ELSE /\ pc' = StageAfter("Wrapping")
            /\ returned' = ResultOk(resultType, input.provider, "result")
            /\ handle' = [f \in HandleFields |-> ReexportedAccessor(f)]
            /\ accessors' = streamResult
            /\ UNCHANGED caught
    /\ UNCHANGED <<conc, setup, stream, snapshots, useSchema, dispatched, input, calls, rule, providerAdapterResult, toolsResult,
                   resultType, streamResult, logs>>

\* lines 277-283 and 302-325: the catch clause and the error translator it
\* calls. The invocation ends here: the promise of
\* ai() resolves to the translated failure, or rejects when the translator
\* itself throws
CatchError ==
    /\ pc = "Catch"
    /\ logs' = LET inCatch == IF debugAI THEN Append(logs, "AI Request Error") ELSE logs
               IN  IF debugAI /\ IsApiError(caught.value)
                   THEN Append(inCatch, "AI API Error Details")
                   ELSE inCatch
    /\ IF HandleErrorThrows(caught.value)
       THEN returned' = Rejected
       ELSE returned' = handleAICallAPIError(caught.value)
    /\ pc' = "Failed"
    /\ UNCHANGED <<conc, setup, stream, snapshots, handle, useSchema, dispatched, input, calls, rule, providerAdapterResult, toolsResult,
                   resultType, streamResult, caught, accessors>>

\* lines 253-261: a deferred accessor of the returned stream settles; the
\* observer attached under DEBUG_AI logs a resolved value and swallows a
\* rejection
AccessorSettles ==
    /\ pc = "Completed"
    /\ \E a \in ObservedAccessors, outcome \in {"resolved", "rejected"} :
          /\ accessors[a] = "pending"
          /\ accessors' = [accessors EXCEPT ![a] = outcome]
          /\ logs' = IF debugAI /\ outcome = "resolved"
                     THEN Append(logs, a)
                     ELSE logs
    /\ UNCHANGED <<conc, setup, stream, snapshots, handle, useSchema, dispatched, pc, input, calls, rule, providerAdapterResult, toolsResult,
                   resultType, streamResult, caught, returned>>

Next ==
    \/ Enter
    \/ ApplyAllRules
    \/ CreateProvider
    \/ GetLanguageModel
    \/ BuildTools
    \/ DecideResultType
    \/ StreamText
    \/ ReturnOk
    \/ CatchError
    \/ AccessorSettles

Spec == Init /\ [][Next]_vars

----------------------------------------------------------------------------
(* The stream behind the returned value, and its cancellation *)

\* the transport sees an abort only through the signal it was called with
AbortObserved == stream.aborted /\ dispatched["abortSignal"] = "signal"

\* the caller signals abort on the signal it gave to ai()
Abort ==
    /\ pc = "Completed"
    /\ input.abortSignal = "signal"
    /\ ~stream.aborted
    /\ stream' = [stream EXCEPT !.aborted = TRUE]
    /\ UNCHANGED <<conc, setup, pc, input, calls, rule, providerAdapterResult, toolsResult,
                   resultType, streamResult, caught, returned, accessors, logs,
                   useSchema, dispatched, handle, snapshots>>

\* the transport delivers the next chunk of fullStream
DeliverChunk ==
    /\ pc = "Completed"
    /\ ~stream.finished
    /\ ~AbortObserved
    /\ stream.chunks < MaxChunks
    /\ stream' = [stream EXCEPT !.chunks = @ + 1]
    /\ UNCHANGED <<conc, setup, pc, input, calls, rule, providerAdapterResult, toolsResult,
                   resultType, streamResult, caught, returned, accessors, logs,
                   useSchema, dispatched, handle, snapshots>>

\* the stream reaches its finish reason
Finish ==
    /\ pc = "Completed"
    /\ ~stream.finished
    /\ ~AbortObserved
    /\ stream' = [stream EXCEPT !.finished = TRUE]
    /\ UNCHANGED <<conc, setup, pc, input, calls, rule, providerAdapterResult, toolsResult,
                   resultType, streamResult, caught, returned, accessors, logs,
                   useSchema, dispatched, handle, snapshots>>

\* one of the accessors ai() does not observe settles
DeferredSettles ==
    /\ pc = "Completed"
    /\ \E a \in UnobservedAccessors, outcome \in {"resolved", "rejected"} :
          /\ stream.deferred[a] = "pending"
          /\ stream' = [stream EXCEPT !.deferred[a] = outcome]
    /\ UNCHANGED <<conc, setup, pc, input, calls, rule, providerAdapterResult, toolsResult,
                   resultType, streamResult, caught, returned, accessors, logs,
                   useSchema, dispatched, handle, snapshots>>

\* Invocations on the default transport, with and without an abort signal
CancelInit ==
    /\ pc = "Idle"
    /\ input \in [DEBUG_AI : {"undefined", "true"}, provider : {"openai"}, schema : {FALSE},
                  output : {"undefined"}, aiSdkProvider : {"default"},
                  abortSignal : {"undefined", "signal"}, part : {ShortText}]
    /\ calls = <<>>
    /\ rule = NoRule
    /\ providerAdapterResult = Pending
    /\ toolsResult = Pending
    /\ resultType = ""
    /\ streamResult = NoStream
    /\ caught = NotCaught
    /\ returned = Pending
    /\ accessors = NoStream
    /\ logs = <<>>
    /\ useSchema = FALSE
    /\ dispatched = NoDispatch
    /\ handle = NoHandle
    /\ snapshots = <<>>
    /\ stream = NoChunks
    /\ conc = NoInvocations
    /\ setup = NoSetup

CancelNext ==
    \/ Enter
    \/ ApplyAllRules
    \/ CreateProvider
    \/ GetLanguageModel
    \/ BuildTools
    \/ DecideResultType
    \/ StreamText
    \/ ReturnOk
    \/ CatchError
    \/ AccessorSettles
    \/ Abort
    \/ DeliverChunk
    \/ Finish
    \/ DeferredSettles

\* the transport settles every deferred accessor of a stream it returned
CancelSpec ==
    /\ CancelInit
    /\ [][CancelNext]_vars
    /\ WF_vars(AccessorSettles)
    /\ WF_vars(DeferredSettles)

----------------------------------------------------------------------------
(* Concurrent invocations of ai() sharing one credential and one config *)

\* the value every collaborator throws in these invocations
SharedThrown == CHOOSE e \in Thrown : e.kind = "Error"

\* mutation: an adapter built by another invocation is reused
CallsCreateProviderUnlessCached(i, invs) == \A j \in DOMAIN invs : invs[j].adapter = 0

\* const providerAdapterResult = createProvider(...): every invocation calls
\* createProvider itself and keeps the result in a local
CallsCreateProvider(i, invs) == TRUE

\* the locals of invocation i are replaced, the other invocations are untouched
SetInvocation(i, locals, allocated) ==
    conc' = [conc EXCEPT !.inv[i] = locals, !.allocated = allocated]

\* lines 98-148, diagnostics disabled
ConcEnter ==
    /\ \E i \in Invocations :
          /\ conc.inv[i].pc = "Idle"
          /\ SetInvocation(i, [conc.inv[i] EXCEPT !.pc = StageAfter("Idle")], conc.allocated)
    /\ UNCHANGED <<pc, input, calls, rule, providerAdapterResult, toolsResult,
                   resultType, streamResult, caught, returned, accessors, logs,
                   useSchema, dispatched, handle, snapshots, stream, setup>>

\* lines 150-165
ConcApplyAllRules ==
    /\ \E i \in Invocations :
          LET me == conc.inv[i]
              called == [me EXCEPT !.calls = Append(@, "applyAllRules")]
          IN  /\ me.pc = "Validating"
              /\ IF HasViolations([rules |-> conc.shared.rules])
                 THEN SetInvocation(i, [called EXCEPT
                          !.returned = ResultError(AIRunError, ViolationsMessage(conc.shared.rules)),
                          !.pc = "Failed"], conc.allocated)
                 ELSE SetInvocation(i, [called EXCEPT !.pc = StageAfter("Validating")],
                                    conc.allocated)
    /\ UNCHANGED <<pc, input, calls, rule, providerAdapterResult, toolsResult,
                   resultType, streamResult, caught, returned, accessors, logs,
                   useSchema, dispatched, handle, snapshots, stream, setup>>

\* lines 167-181
ConcCreateProvider ==
    /\ \E i \in Invocations :
          LET me == conc.inv[i]
              called == [me EXCEPT !.calls = Append(@, "createProvider")]
              outcome == IF conc.shared.adapter = "error"
                         THEN ResultError(AIProviderConfigError,
                                          "Provider config is missing a required field")
                         ELSE ResultOk("", "", "llmProvider")
          IN  /\ me.pc = "AdapterBuilding"
              /\ IF ~CallsCreateProvider(i, conc.inv)
                 THEN SetInvocation(i, [me EXCEPT
                          !.adapter = CHOOSE a \in {conc.inv[j].adapter : j \in Invocations} : a # 0,
                          !.pc = StageAfter("AdapterBuilding")], conc.allocated)
                 ELSE IF conc.shared.adapter = "throws"
                 THEN SetInvocation(i, [called EXCEPT
                          !.returned = handleAICallAPIError(SharedThrown),
                          !.pc = "Failed"], conc.allocated)
                 ELSE IF ProviderAdapterFailed(outcome)
                 THEN SetInvocation(i, [called EXCEPT !.returned = outcome, !.pc = "Failed"],
                                    conc.allocated)
                 ELSE SetInvocation(i, [called EXCEPT
                          !.adapter = conc.allocated + 1,
                          !.pc = StageAfter("AdapterBuilding")], conc.allocated + 1)
    /\ UNCHANGED <<pc, input, calls, rule, providerAdapterResult, toolsResult,
                   resultType, streamResult, caught, returned, accessors, logs,
                   useSchema, dispatched, handle, snapshots, stream, setup>>

\* lines 183-188
ConcGetLanguageModel ==
    /\ \E i \in Invocations :
          /\ conc.inv[i].pc = "ModelResolving"
          /\ SetInvocation(i, [conc.inv[i] EXCEPT
                  !.calls = Append(@, "getLanguageModel"),
                  !.pc = StageAfter("ModelResolving")], conc.allocated)
    /\ UNCHANGED <<pc, input, calls, rule, providerAdapterResult, toolsResult,
                   resultType, streamResult, caught, returned, accessors, logs,
                   useSchema, dispatched, handle, snapshots, stream, setup>>

\* lines 190-194
ConcBuildTools ==
    /\ \E i \in Invocations :
          LET me == conc.inv[i]
              called == [me EXCEPT !.calls = Append(@, "buildTools")]
              outcome == IF conc.shared.tools = "error"
                         THEN ResultError(AIRunError, "Invalid tool schema")
                         ELSE ResultOk("", "", "tools")
          IN  /\ me.pc = "ToolBuilding"
              /\ IF ToolsFailed(outcome)
                 THEN SetInvocation(i, [called EXCEPT !.returned = outcome, !.pc = "Failed"],
                                    conc.allocated)
                 ELSE SetInvocation(i, [called EXCEPT
                          !.tools = conc.allocated + 1,
                          !.pc = StageAfter(StageAfter("ToolBuilding"))], conc.allocated + 1)
    /\ UNCHANGED <<pc, input, calls, rule, providerAdapterResult, toolsResult,
                   resultType, streamResult, caught, returned, accessors, logs,
                   useSchema, dispatched, handle, snapshots, stream, setup>>

\* lines 236-283: the dispatch and the return of its result
ConcStreamText ==
    /\ \E i \in Invocations :
          LET me == conc.inv[i]
              called == [me EXCEPT !.calls = Append(@, "streamText")]
          IN  /\ me.pc = "Streaming"
              /\ IF conc.shared.transport = "throws"
                 THEN SetInvocation(i, [called EXCEPT
                          !.returned = handleAICallAPIError(SharedThrown),
                          !.pc = "Failed"], conc.allocated)
                 ELSE SetInvocation(i, [called EXCEPT
                          !.result = conc.allocated + 1,
                          !.returned = ResultOk("text", conc.shared.provider, "result"),
                          !.pc = StageAfter(StageAfter("Streaming"))], conc.allocated + 1)
    /\ UNCHANGED <<pc, input, calls, rule, providerAdapterResult, toolsResult,
                   resultType, streamResult, caught, returned, accessors, logs,
                   useSchema, dispatched, handle, snapshots, stream, setup>>

\* the idle state of the single invocation followed by Spec
SingleIdle ==
    /\ pc = "Idle"
    /\ input = [DEBUG_AI |-> "undefined", provider |-> "openai", schema |-> FALSE,
                output |-> "undefined", aiSdkProvider |-> "default",
                abortSignal |-> "undefined", part |-> ShortText]
    /\ calls = <<>>
    /\ rule = NoRule
    /\ providerAdapterResult = Pending
    /\ toolsResult = Pending
    /\ resultType = ""
    /\ streamResult = NoStream
    /\ caught = NotCaught
    /\ returned = Pending
    /\ accessors = NoStream
    /\ logs = <<>>
    /\ useSchema = FALSE
    /\ dispatched = NoDispatch
    /\ handle = NoHandle
    /\ snapshots = <<>>
    /\ stream = NoChunks

ConcInit ==
    /\ SingleIdle
    /\ setup = NoSetup
    /\ \E sh \in SharedInputs :
          conc = [shared |-> sh, allocated |-> 0, inv |-> [i \in Invocations |-> IdleInvocation]]

ConcNext ==
    \/ ConcEnter
    \/ ConcApplyAllRules
    \/ ConcCreateProvider
    \/ ConcGetLanguageModel
    \/ ConcBuildTools
    \/ ConcStreamText

ConcSpec == ConcInit /\ [][ConcNext]_vars

----------------------------------------------------------------------------
(* setupAction: the handler, apps/web/src/actions/user/setupAction.ts *)

\* ROUTES.dashboard.root
DashboardRoot == "/dashboard"

\* values of the optional form field returnTo: absent, empty, a Latitude
\* URL, a URL of another site
ReturnTos == {"undefined", "", "https://app.latitude.so/projects", "https://elsewhere.example/"}

\* isLatitudeUrl of @latitude-data/constants
isLatitudeUrl(url) == url = "https://app.latitude.so/projects"

Emails == {"ann@example.com", "bob@example.com"}

\* what setupService can return: Result.ok({ user, workspace }) or an error
SetupServiceOutcomes(email) ==
    [ok : {TRUE}, user : [id : {"u1", "u2"}, email : {email}, name : {"name"}],
     workspace : {"w1", "w2"}]
    \cup {[ok |-> FALSE, user |-> [id |-> "", email |-> "", name |-> ""], workspace |-> ""]}

NoServiceResult == [ok |-> FALSE, user |-> [id |-> "", email |-> "", name |-> ""], workspace |-> ""]

NoSession == [user |-> [id |-> "", email |-> ""], workspace |-> ""]

\* mutation: the toggle is not consulted
SignupNeverDisabled(disableEmail) == FALSE

\* if (env.DISABLE_EMAIL)
SignupDisabled(disableEmail) == disableEmail

\* sessionData: { user: { id: user.id, email: user.email }, workspace }
SessionData(user, workspace) ==
    [user |-> [id |-> user.id, email |-> user.email], workspace |-> workspace]

\* mutation: any returnTo that is present is followed
RedirectTargetUnchecked(returnTo) ==
    IF returnTo \in {"undefined", ""} THEN DashboardRoot ELSE returnTo

\* lines 63-67: !input.returnTo || !isLatitudeUrl(input.returnTo) ? root : returnTo
RedirectTarget(returnTo) ==
    IF returnTo \in {"undefined", ""} \/ ~isLatitudeUrl(returnTo)
    THEN DashboardRoot
    ELSE returnTo

\* lines 46-48
CheckSignupEnabled ==
    /\ setup.pc = "Start"
    /\ IF SignupDisabled(setup.input.disableEmail)
       THEN setup' = [setup EXCEPT !.pc = "Failed", !.thrown = "ForbiddenError"]
       ELSE setup' = [setup EXCEPT !.pc = "Service"]
    /\ UNCHANGED <<pc, input, calls, rule, providerAdapterResult, toolsResult,
                   resultType, streamResult, caught, returned, accessors, logs,
                   useSchema, dispatched, handle, snapshots, stream, conc>>

\* lines 50-51: await setupService(input), result.unwrap()
CallSetupService ==
    /\ setup.pc = "Service"
    /\ \E r \in SetupServiceOutcomes(setup.input.email) :
          setup' = [setup EXCEPT
                      !.serviceCalls = @ + 1,
                      !.result = r,
                      !.pc = IF r.ok THEN "Session" ELSE "Failed",
                      !.thrown = IF r.ok THEN @ ELSE "ServiceError"]
    /\ UNCHANGED <<pc, input, calls, rule, providerAdapterResult, toolsResult,
                   resultType, streamResult, caught, returned, accessors, logs,
                   useSchema, dispatched, handle, snapshots, stream, conc>>

\* lines 53-61: await setSession(...); it stores the session or throws
SetSession ==
    /\ setup.pc = "Session"
    /\ \/ setup' = [setup EXCEPT
                      !.session = SessionData(setup.result.user, setup.result.workspace),
                      !.sessionSet = TRUE,
                      !.pc = "Redirect"]
       \/ setup' = [setup EXCEPT !.pc = "Failed", !.thrown = "SessionError"]
    /\ UNCHANGED <<pc, input, calls, rule, providerAdapterResult, toolsResult,
                   resultType, streamResult, caught, returned, accessors, logs,
                   useSchema, dispatched, handle, snapshots, stream, conc>>

\* lines 63-67: redirect() ends the handler
Redirect ==
    /\ setup.pc = "Redirect"
    /\ setup' = [setup EXCEPT
                    !.redirects = Append(@, RedirectTarget(setup.input.returnTo)),
                    !.pc = "Done"]
    /\ UNCHANGED <<pc, input, calls, rule, providerAdapterResult, toolsResult,
                   resultType, streamResult, caught, returned, accessors, logs,
                   useSchema, dispatched, handle, snapshots, stream, conc>>

SetupInit ==
    /\ SingleIdle
    /\ conc = NoInvocations
    /\ \E in \in [disableEmail : BOOLEAN, returnTo : ReturnTos, email : Emails] :
          setup = [pc |-> "Start", input |-> in, serviceCalls |-> 0,
                   result |-> NoServiceResult, session |-> NoSession,
                   sessionSet |-> FALSE, redirects |-> <<>>, thrown |-> ""]

SetupNext ==
    \/ CheckSignupEnabled
    \/ CallSetupService
    \/ SetSession
    \/ Redirect

SetupSpec == SetupInit /\ [][SetupNext]_vars

\* Invocations with diagnostics enabled, over every kind of content part
SnapshotInit ==
    /\ pc = "Idle"
    /\ input \in [DEBUG_AI : {"true"}, provider : {"openai"}, schema : {FALSE},
                  output : {"undefined"}, aiSdkProvider : {"default", "override"},
                  abortSignal : {"undefined"}, part : Parts]
    /\ calls = <<>>
    /\ rule = NoRule
    /\ providerAdapterResult = Pending
    /\ toolsResult = Pending
    /\ resultType = ""
    /\ streamResult = NoStream
    /\ caught = NotCaught
    /\ returned = Pending
    /\ accessors = NoStream
    /\ logs = <<>>
    /\ useSchema = FALSE
    /\ dispatched = NoDispatch
    /\ handle = NoHandle
    /\ snapshots = <<>>
    /\ stream = NoChunks
    /\ conc = NoInvocations
    /\ setup = NoSetup

SnapshotSpec == SnapshotInit /\ [][Next]_vars

TypeOK ==
    /\ pc \in {"Idle", "Validating", "AdapterBuilding", "ModelResolving",
               "ToolBuilding", "ModeDeciding", "Streaming", "Wrapping",
               "Catch", "Completed", "Failed"}
    /\ returned.status \in {"pending", "ok", "error", "rejected"}
    /\ resultType \in {"", "text", "object"}

----------------------------------------------------------------------------
(* Properties *)

\* the promise of ai() has settled
Settled == pc \in {"Completed", "Failed"}

\* something was thrown inside the try block
WasCaught == caught.value.kind # "none"

\* C1: whenever the rule engine has returned at least one violation, ai()
\* has returned a failure with code AIRunError, and applyAllRules is the only
\* collaborator invoked: createProvider, getLanguageModel, buildTools and
\* streamText are never called in that invocation.
C1_ViolationsStopTheInvocation ==
    (rule.returned /\ rule.rules # <<>>) =>
        /\ pc = "Failed"
        /\ returned.status = "error"
        /\ returned.code = AIRunError
        /\ calls = <<"applyAllRules">>

C1_Witness ==
    /\ rule.returned
    /\ Len(rule.rules) = 1
    /\ pc = "Failed"
    /\ debugAI

RECURSIVE Listed(_, _)
\* the first n violations, one per line, each after "- "
Listed(rules, n) ==
    IF n = 0 THEN ""
    ELSE IF n = 1 THEN "- " \o rules[1]
    ELSE Listed(rules, n - 1) \o "\n" \o "- " \o rules[n]

\* C2 (as stated): the message of the run error returned for the violations
\* v1..vn is exactly "- v1\n- v2 ... \n- vn".
C2_MessageIsTheList ==
    (rule.returned /\ rule.rules # <<>> /\ Settled) =>
        returned.message = Listed(rule.rules, Len(rule.rules))

\* C2 (amended): the message of the run error returned for the violations
\* v1..vn is the header line "There are rule violations:" followed by
\* "- v1\n- v2 ... \n- vn": every violation once, in the rule engine's order.
C2_MessageIsHeaderThenList ==
    (rule.returned /\ rule.rules # <<>> /\ Settled) =>
        returned.message =
            "There are rule violations:" \o "\n" \o Listed(rule.rules, Len(rule.rules))

C2_Witness ==
    /\ rule.returned
    /\ Len(rule.rules) = 2
    /\ rule.rules[1] # rule.rules[2]
    /\ returned.status = "error"

\* C3: when createProvider has returned an error, ai() has returned that very
\* result (a configuration error, not a run error), and neither
\* getLanguageModel nor buildTools nor the transport (default or injected)
\* has been invoked.
C3_AdapterErrorReturnedVerbatim ==
    providerAdapterResult.status = "error" =>
        /\ pc = "Failed"
        /\ returned = providerAdapterResult
        /\ returned.code = AIProviderConfigError
        /\ calls = <<"applyAllRules", "createProvider">>
        /\ streamResult = NoStream

C3_Witness ==
    /\ providerAdapterResult.status = "error"
    /\ input.aiSdkProvider = "override"
    /\ returned.code = AIProviderConfigError

\* C4: when buildTools has returned an error, ai() has returned that very
\* result, unchanged in code and message, and the transport has not been
\* invoked.
C4_ToolsErrorReturnedVerbatim ==
    toolsResult.status = "error" =>
        /\ pc = "Failed"
        /\ returned = toolsResult
        /\ \A i \in 1..Len(calls) : calls[i] # "streamText"
        /\ streamResult = NoStream

C4_Witness ==
    /\ toolsResult.status = "error"
    /\ returned.status = "error"
    /\ returned.message = "Invalid tool schema"
    /\ Len(calls) = 4

\* C5: the type tag of a success is 'object' exactly when a schema is present
\* and the output mode is 'object' or 'array', and 'text' otherwise, whatever
\* the provider, the transport and the diagnostic flag are.
C5_ResultTypeFromSchemaAndOutput ==
    returned.status = "ok" =>
        returned.type = IF input.schema /\ input.output \in {"object", "array"}
                        THEN "object"
                        ELSE "text"

C5_Witness ==
    /\ returned.status = "ok"
    /\ returned.type = "object"
    /\ input.output = "array"

\* C6: whatever is thrown inside ai() (by a collaborator or by the
\* diagnostic code), the promise of ai() does not reject: it resolves to the
\* failure handleAICallAPIError builds.
C6_NothingEscapes ==
    (WasCaught /\ Settled) =>
        /\ returned.status = "error"
        /\ returned.status # "rejected"

\* the message the three cases of the error translation give: a transport
\* error first, then a generic error, then any other value by its string form
ExpectedTranslation(e) ==
    CASE e.kind = "APICallError" ->
            "Error: " \o e.message \o " and response body: " \o e.responseBody
      [] e.kind = "Error" -> "Unknown error: " \o e.message
      [] OTHER -> "Unknown error: " \o e.string

\* C7: for every caught value, handleAICallAPIError gives the message of the
\* first matching case among: transport error, generic error, other value.
C7_MessageByThreeCases ==
    (WasCaught /\ Settled) =>
        returned.message = ExpectedTranslation(caught.value)

\* C8: every result handleAICallAPIError produces is a failure with code
\* AIRunError; so a failure of ai() that comes from a thrown value carries
\* AIRunError, and a configuration error is always the result createProvider
\* returned, never the outcome of a throw.
C8_TranslatorAlwaysRunError ==
    /\ (WasCaught /\ returned.status \in {"ok", "error"}) =>
            /\ returned.status = "error"
            /\ returned.code = AIRunError
    /\ returned.code = AIProviderConfigError =>
            /\ ~WasCaught
            /\ returned = providerAdapterResult

C8_Witness ==
    /\ caught.value.kind = "value"
    /\ caught.from = "createProvider"
    /\ returned.status = "error"
    /\ returned.code = AIRunError

\* the one message an unclassified failure would carry if it were generic
GenericMessage == "Unknown error"

\* C9 (as stated): a failure that comes from a thrown value other than a
\* transport error is reported with code Unknown and a generic message, the
\* same for every such value.
C9_UnclassifiedIsGenericUnknown ==
    (Settled /\ caught.value.kind \in {"Error", "value"}) =>
        /\ returned.code = Unknown
        /\ returned.message = GenericMessage

\* C9 (amended): a failure result that comes from a thrown value other than a
\* transport error carries code AIRunError, never Unknown, and its message is
\* not generic: it is "Unknown error: " followed by the message of the thrown
\* error, or by the string form of a thrown non-error value.
C9_UnclassifiedIsRunErrorWithDetail ==
    (Settled /\ caught.value.kind \in {"Error", "value"}) =>
        /\ returned.status = "error"
        /\ returned.code = AIRunError
        /\ returned.code # Unknown
        /\ returned.message =
              "Unknown error: " \o (IF caught.value.kind = "Error"
                                    THEN caught.value.message
                                    ELSE caught.value.string)
        /\ returned.message # GenericMessage

C9_Witness ==
    /\ Settled
    /\ caught.value.kind = "Error"
    /\ caught.from = "streamText"
    /\ returned.message = "Unknown error: X"

\* the order in which ai() invokes its collaborators
CallOrder ==
    <<"applyAllRules", "createProvider", "getLanguageModel", "buildTools", "streamText">>

\* the collaborators are invoked in order, each at most once, each only after
\* the previous stage succeeded
StagesInOrder ==
    /\ Len(calls) <= Len(CallOrder)
    /\ \A i \in 1..Len(calls) : calls[i] = CallOrder[i]
    /\ Len(calls) >= 2 => rule.returned /\ rule.rules = <<>>
    /\ Len(calls) >= 3 => providerAdapterResult.status = "ok"
    /\ Len(calls) >= 5 => toolsResult.status = "ok"
    /\ pc = "Completed" => calls = CallOrder /\ returned.status = "ok"
    /\ pc = "Failed" => returned.status \in {"error", "rejected"}
    /\ ~Settled => returned.status = "pending"

\* C10: the collaborators are invoked in the order applyAllRules,
\* createProvider, getLanguageModel, buildTools, streamText, each at most once
\* and only after the previous stage succeeded; Completed and Failed are
\* terminal: once reached, the stage, the returned value and the list of
\* invoked collaborators never change (no retry, also after a throw).
C10_StageOrderNoRetry ==
    /\ []StagesInOrder
    /\ [][Settled => (pc' = pc /\ calls' = calls /\ returned' = returned)]_vars

C10_Witness ==
    /\ pc = "Failed"
    /\ caught.from = "streamText"
    /\ calls = CallOrder
    /\ returned.status = "error"

\* C18: as long as DEBUG_AI is unset or has a value other than 'true', no
\* diagnostic entry is written at any point of the invocation: not before or
\* after the dispatch, not when a deferred accessor settles, not on an error.
C18_NoDiagnosticsUnlessEnabled ==
    input.DEBUG_AI # "true" => logs = <<>>

C18_Witness ==
    /\ input.DEBUG_AI = "1"
    /\ pc = "Completed"
    /\ accessors["providerMetadata"] = "resolved"
    /\ logs = <<>>

\* streamText was called
Dispatched == dispatched # NoDispatch

\* C15: the dispatch is given a structured-object output specification
\* exactly when the result is tagged 'object', and none exactly when it is
\* tagged 'text'; both come from the one value of useSchema computed before
\* the dispatch.
C15_OutputModeAgreesWithTag ==
    /\ Dispatched =>
          /\ dispatched["experimental_output"] \in
                {"Output.object(jsonSchema(schema))", "undefined"}
          /\ dispatched["experimental_output"] = "Output.object(jsonSchema(schema))"
                <=> resultType = "object"
          /\ dispatched["experimental_output"] = "undefined" <=> resultType = "text"
          /\ useSchema <=> resultType = "object"
    /\ returned.status = "ok" => Dispatched /\ returned.type = resultType

C15_Witness ==
    /\ returned.status = "ok"
    /\ returned.type = "object"
    /\ dispatched["experimental_output"] = "Output.object(jsonSchema(schema))"

\* C16: whenever streamText is called, its arguments are the resolved
\* language model, the messages and the config returned by the rule engine
\* (not the caller's), the tools returned by buildTools (not the raw tool
\* schemas), the caller's abort signal and the provider options of the rule
\* engine's config; no 'schema' key is passed.
C16_DispatchArguments ==
    Dispatched =>
        /\ dispatched["model"] = "languageModel"
        /\ dispatched["messages"] = rule.messages
        /\ dispatched["messages"] # originalMessages
        /\ dispatched["tools"] = toolsResult.stream
        /\ dispatched["tools"] # rule.config["tools"]
        /\ dispatched["abortSignal"] = input.abortSignal
        /\ dispatched["providerOptions"] = rule.config["providerOptions"]
        /\ dispatched["temperature"] = rule.config["temperature"]
        /\ \A k \in (DOMAIN dispatched) \cap (DOMAIN originalConfig) :
              dispatched[k] # originalConfig[k]
        /\ "schema" \notin DOMAIN dispatched

C16_Witness ==
    /\ Dispatched
    /\ "schema" \in DOMAIN rule.config
    /\ input.abortSignal = "signal"
    /\ pc = "Completed"

\* the state of a field of the returned value: the state of the accessor of
\* `result` it was filled from
HandleState(field) == accessors[handle[field]]

\* every field of a success value is the same-named accessor of the object
\* the one dispatch returned
ReexportedUnchanged ==
    returned.status = "ok" =>
        /\ returned.providerName = input.provider
        /\ Len(SelectSeq(calls, LAMBDA c : c = "streamText")) = 1
        /\ \A f \in HandleFields \ {"sources"} : handle[f] = f
        /\ \A a \in ObservedAccessors : HandleState(a) = accessors[a]

\* C17: a success value carries the provider kind of the credential, and its
\* stream fields are the accessors of the object returned by the single
\* dispatch, unchanged; ai() returns without waiting for any of them, so at
\* the return each is in the state the transport left it in.
C17_HandleIsTheTransportResult ==
    /\ []ReexportedUnchanged
    /\ [][(pc = "Wrapping" /\ pc' = "Completed") =>
            /\ accessors' = streamResult
            /\ \A a \in ObservedAccessors : accessors'[a] \in {"pending", "missing"}]_vars

C17_Witness ==
    /\ returned.status = "ok"
    /\ returned.providerName = "anthropic"
    /\ HandleState("finishReason") = "resolved"
    /\ HandleState("providerMetadata") = "pending"

\* C11: the diagnostic flag does not change the outcome. Without
\* diagnostics ai() returns the success value as soon as the transport has
\* returned its stream object; so, whatever DEBUG_AI is, an invocation in
\* which the transport returned an object (complete or not) ends with a
\* success, never with a failure raised by the diagnostic code.
C11_DiagnosticsAreTransparent ==
    (Settled /\ streamResult # NoStream) =>
        /\ returned.status = "ok"
        /\ caught.from # "diagnostics"

\* C12: every entry of a logged snapshot is size-truncated: of a text,
\* image or string payload at most 100 characters plus an ellipsis are
\* written, of binary data and of files nothing but metadata, whatever the
\* payload's length and also for an image given as an http URL or data: URI.
C12_SnapshotsAreTruncated ==
    \A i \in 1..Len(snapshots) :
        /\ snapshots[i].logged <= TruncateAt + EllipsisLen
        /\ snapshots[i].payload = "binary" => snapshots[i].logged = 0

\* no deferred accessor of the returned value is pending
AllSettled ==
    /\ \A a \in ObservedAccessors : accessors[a] # "pending"
    /\ \A a \in UnobservedAccessors : stream.deferred[a] # "pending"

AloneResult(sh) ==
    IF sh.rules # <<>>
    THEN ResultError(AIRunError, "There are rule violations:" \o "\n" \o Listed(sh.rules, Len(sh.rules)))
    ELSE IF sh.adapter = "throws"
    THEN ResultError(AIRunError, "Unknown error: " \o SharedThrown.message)
    ELSE IF sh.adapter = "error"
    THEN ResultError(AIProviderConfigError, "Provider config is missing a required field")
    ELSE IF sh.tools = "error"
    THEN ResultError(AIRunError, "Invalid tool schema")
    ELSE IF sh.transport = "throws"
    THEN ResultError(AIRunError, "Unknown error: " \o SharedThrown.message)
    ELSE ResultOk("text", sh.provider, "result")

\* how often a collaborator occurs among the calls of an invocation
TimesCalled(locals, name) == Len(SelectSeq(locals.calls, LAMBDA c : c = name))

\* C14: under every interleaving of the stages of concurrent invocations on
\* the same credential and config, each invocation calls createProvider and
\* buildTools itself, at most once, and owns the adapter, the tool set and
\* the stream object it got: none of them belongs to two invocations; and
\* each invocation returns what it returns when it runs alone.
C14_ConcurrentInvocationsIndependent ==
    /\ \A i \in Invocations :
          LET me == conc.inv[i]
          IN  /\ me.adapter # 0 => TimesCalled(me, "createProvider") = 1
              /\ TimesCalled(me, "createProvider") <= 1
              /\ me.tools # 0 => TimesCalled(me, "buildTools") = 1
              /\ TimesCalled(me, "buildTools") <= 1
              /\ me.pc \in {"Completed", "Failed"} => me.returned = AloneResult(conc.shared)
              /\ me.pc = "Completed" <=> me.result # 0
    /\ \A i, j \in Invocations :
          i # j =>
             /\ conc.inv[i].adapter # 0 => conc.inv[i].adapter # conc.inv[j].adapter
             /\ conc.inv[i].tools # 0 => conc.inv[i].tools # conc.inv[j].tools
             /\ conc.inv[i].result # 0 => conc.inv[i].result # conc.inv[j].result

C14_Witness ==
    /\ conc.inv[1].pc = "Completed"
    /\ conc.inv[2].pc = "Completed"
    /\ conc.inv[2].adapter < conc.inv[1].adapter
    /\ conc.inv[1].result < conc.inv[2].result

\* C19: a session is set only after setupService returned a success for the
\* request, and with the user and workspace it returned; with email signup
\* disabled the handler fails with a ForbiddenError before the service is
\* called, so there is no session and no redirect; when the service returns
\* an error there is no session and no redirect either.
C19_SessionOnlyAfterSuccessfulSetup ==
    /\ setup.sessionSet =>
          /\ setup.serviceCalls = 1
          /\ setup.result.ok
          /\ setup.session.user.id = setup.result.user.id
          /\ setup.session.user.email = setup.result.user.email
          /\ setup.session.workspace = setup.result.workspace
    /\ ~setup.sessionSet => setup.session = NoSession
    /\ (setup.input.disableEmail /\ setup.pc # "Start") =>
          /\ setup.pc = "Failed"
          /\ setup.thrown = "ForbiddenError"
          /\ setup.serviceCalls = 0
          /\ ~setup.sessionSet
          /\ setup.redirects = <<>>
    /\ (setup.serviceCalls > 0 /\ ~setup.result.ok) =>
          /\ setup.pc = "Failed"
          /\ ~setup.sessionSet
          /\ setup.redirects = <<>>

C19_Witness ==
    /\ setup.sessionSet
    /\ setup.session.user.email = "bob@example.com"
    /\ setup.session.workspace = "w2"
    /\ setup.pc = "Done"

\* C20: a finished handler has redirected exactly once: to returnTo when it
\* is present and a Latitude URL, to the dashboard root otherwise; never to
\* a returnTo that is not a Latitude URL; and no redirect is issued before
\* the session is set.
C20_RedirectTarget ==
    /\ Len(setup.redirects) <= 1
    /\ setup.pc = "Done" <=> Len(setup.redirects) = 1
    /\ \A i \in 1..Len(setup.redirects) :
          /\ setup.sessionSet
          /\ setup.redirects[i] = DashboardRoot \/ isLatitudeUrl(setup.redirects[i])
          /\ setup.redirects[i] =
                (IF setup.input.returnTo = "https://app.latitude.so/projects"
                 THEN setup.input.returnTo
                 ELSE DashboardRoot)

C20_Witness ==
    /\ setup.pc = "Done"
    /\ setup.input.returnTo = "https://elsewhere.example/"
    /\ setup.redirects = <<DashboardRoot>>

====
